---- MODULE Spec2Model ----
(***************************************************************************)
(* The meals routes of the daily-diet API (src/routes/meals.ts) as a state *)
(* machine.  The `meals` table is a set of rows.  Every request is handled *)
(* by an async handler; each `await knex(...)` is one statement executed   *)
(* by the store, and handlers of different requests interleave at those    *)
(* awaits.  A handler is therefore a short sequence of steps, one per      *)
(* store statement, with the handler's locals kept in `proc`.  `reply` is  *)
(* the response sent last, together with the request it answers; `served`  *)
(* counts accepted requests and bounds the length of a run.                *)
(***************************************************************************)
EXTENDS Integers, Sequences, FiniteSets, TLC

(***************************************************************************)
(* Bounds of the model.                                                    *)
(***************************************************************************)
\* number of ids randomUUID() hands out in a run
MaxMeals == 2
\* number of requests that can be in flight at once
NumProcs == 2
\* number of requests the server accepts in a run
MaxRequests == 4
\* largest number of rows of a seeded table (SeededSpec)
MaxSeed == 6

Procs == 1 .. NumProcs

\* authenticated users attached to a request by checkSessionIdExists
Users == {"A", "B"}

\* ids randomUUID() can return: modelled as 1, 2, ... in order of generation
Uuids == 1 .. MaxMeals

\* :id path parameters a client sends: every generated or not-yet-generated
\* uuid, one uuid that is never generated, and a string that is no uuid
NeverUuid == MaxMeals + 1
ParamIds == Uuids \cup {NeverUuid, 0}

(***************************************************************************)
(* JSON values of a request body, tagged with their JavaScript type.       *)
(***************************************************************************)
Str(s)  == [type |-> "string",  val |-> s]
Bool(b) == [type |-> "boolean", val |-> b]
Num(n)  == [type |-> "number",  val |-> n]

\* time zone offsets (minutes east of UTC) the server process runs under:
\* UTC-3, where the local day differs from the UTC day in the evening
TzOffsets == {-180}

VARIABLES
    meals,      \* the rows of table `meals`
    generated,  \* how many ids randomUUID() has returned
    tz,         \* the server's time zone offset, in minutes
    served,     \* how many requests the server has accepted
    proc,       \* proc[p]: position and locals of the handler running for p
    reply       \* the last response sent, and the request it answers

vars == <<meals, generated, tz, served, proc, reply>>

(***************************************************************************)
(* Dates.  A JavaScript Date is its time value: milliseconds since the     *)
(* epoch.  getTime() returns it; getDate() returns the day of the month of *)
(* the local calendar date.                                                *)
(***************************************************************************)
\* day of the month (1..31) of the proleptic Gregorian date `days` days
\* after 1970-01-01
DayOfMonth(days) ==
    LET z   == days + 719468
        era == z \div 146097
        doe == z - era * 146097
        yoe == (doe - doe \div 1460 + doe \div 36524 - doe \div 146096) \div 365
        doy == doe - (365 * yoe + yoe \div 4 - yoe \div 100)
        mp  == (5 * doy + 2) \div 153
    IN  doy - (153 * mp + 2) \div 5 + 1

getTime(d) == d

getDate(d) == DayOfMonth((d + tz * 60000) \div 86400000)

\* new Date(v) as z.coerce.date() calls it: ok and the time value, or not
\* ok for an Invalid Date, which the schema rejects
IsoDates == {"1970-01-03T01:00:00.000Z"}
ParseIso(s) == IF s = "1970-01-03T01:00:00.000Z" THEN 176400000 ELSE 0

CoerceDate(v) ==
    CASE v.type = "number"  -> [ok |-> TRUE, date |-> v.val]
      [] v.type = "boolean" -> [ok |-> TRUE, date |-> IF v.val THEN 1 ELSE 0]
      [] v.type = "string"  -> IF v.val \in IsoDates
                                 THEN [ok |-> TRUE, date |-> ParseIso(v.val)]
                                 ELSE [ok |-> FALSE, date |-> 0]

(***************************************************************************)
(* Request schemas (zod).                                                  *)
(***************************************************************************)
Has(body, f) == f \in DOMAIN body

\* z.string().uuid() on the :id parameter
IsUuid(id) == id # 0

\* createMealBodySchema.parse succeeds
CreateBodyValid(body) ==
    /\ Has(body, "name") /\ body.name.type = "string"
    /\ Has(body, "description") /\ body.description.type = "string"
    /\ Has(body, "isOnDiet") /\ body.isOnDiet.type = "boolean"
    /\ Has(body, "date") /\ CoerceDate(body.date).ok

\* editMealBodySchema.parse succeeds
EditBodyValid(body) ==
    /\ Has(body, "name") => body.name.type = "string"
    /\ Has(body, "description") => body.description.type = "string"
    /\ Has(body, "isOnDiet") => body.isOnDiet.type = "boolean"
    /\ Has(body, "date") => CoerceDate(body.date).ok

\* request bodies the clients send to POST /
CreateBodies ==
    { [name |-> Str("n1"), description |-> Str("d1"), isOnDiet |-> Bool(TRUE),
       date |-> Num(20)],
      [name |-> Str("n1"), description |-> Str("d1"), isOnDiet |-> Bool(FALSE),
       date |-> Num(176400000)] }
    \cup { [description |-> Str("d1"), isOnDiet |-> Bool(TRUE), date |-> Num(20)] }

\* request bodies the clients send to PUT /:id
EditBodies ==
    { << >>,
      [name |-> Str("n2")],
      [description |-> Str("d2")],
      [isOnDiet |-> Bool(FALSE)],
      [date |-> Num(-1)],
      [date |-> Str("1970-01-03T01:00:00.000Z")],
      [date |-> Str("soon")] }

(***************************************************************************)
(* Store statements (knex).                                                *)
(***************************************************************************)
\* knex('meals').where({ id }): the rows with that id
WhereId(id) == { r \in meals : r.id = id }

\* knex('meals').where({ user_id }): the rows of that user
WhereUser(u) == { r \in meals : r.user_id = u }

\* the count with the is_on_diet condition left out
CountWhereUser(u, flag) == Cardinality({ r \in meals : r.user_id = u })

\* .where({ user_id, is_on_diet }).count('id', { as: 'total' }).first()
CountWhere(u, flag) ==
    Cardinality({ r \in meals : r.user_id = u /\ r.is_on_diet = flag })

\* the same with .orderBy('date', 'asc')
RECURSIVE OrderByDateAsc(_)
OrderByDateAsc(rows) ==
    IF rows = {} THEN { << >> }
    ELSE LET low == { r \in rows : \A q \in rows : q.date >= r.date }
         IN  UNION { { <<r>> \o rest : rest \in OrderByDateAsc(rows \ {r}) }
                     : r \in low }

\* the sequences a query may return for rows `rows` under
\* .orderBy('date', 'desc'): rows of equal date come in any order
RECURSIVE OrderByDateDesc(_)
OrderByDateDesc(rows) ==
    IF rows = {} THEN { << >> }
    ELSE LET top == { r \in rows : \A q \in rows : q.date <= r.date }
         IN  UNION { { <<r>> \o rest : rest \in OrderByDateDesc(rows \ {r}) }
                     : r \in top }

\* the reduce without the reset of currentSequence on an off-diet meal
RECURSIVE ReduceNoReset(_, _)
ReduceNoReset(list, n) ==
    IF n = 0 THEN [bestOnDietSequence |-> 0, currentSequence |-> 0]
    ELSE LET acc == ReduceNoReset(list, n - 1)
             cur == IF list[n].is_on_diet THEN acc.currentSequence + 1
                    ELSE acc.currentSequence
         IN  [bestOnDietSequence |->
                  IF cur > acc.bestOnDietSequence THEN cur
                  ELSE acc.bestOnDietSequence,
              currentSequence |-> cur]

\* the reduce of GET /metrics: acc after scanning list[1..n]
RECURSIVE Reduce(_, _)
Reduce(list, n) ==
    IF n = 0 THEN [bestOnDietSequence |-> 0, currentSequence |-> 0]
    ELSE LET acc == Reduce(list, n - 1)
             cur == IF list[n].is_on_diet THEN acc.currentSequence + 1 ELSE 0
         IN  [bestOnDietSequence |->
                  IF cur > acc.bestOnDietSequence THEN cur
                  ELSE acc.bestOnDietSequence,
              currentSequence |-> cur]

(***************************************************************************)
(* Handlers.                                                               *)
(***************************************************************************)
Idle == [pc |-> "idle"]

\* the server accepts a request of client p
Accept(p) ==
    /\ proc[p].pc = "idle"
    /\ served < MaxRequests
    /\ served' = served + 1

NoReply == [op |-> "none", status |-> "none"]

Send(p, r) == reply' = r
ZodError == "ZodError"

\* the row of POST / with date.getDate() in place of date.getTime()
NewMealStoresDay(id, u, body) ==
    [id |-> id,
     user_id |-> u,
     name |-> body.name.val,
     description |-> body.description.val,
     is_on_diet |-> body.isOnDiet.val,
     date |-> getDate(CoerceDate(body.date).date)]

\* the row POST / inserts
NewMeal(id, u, body) ==
    [id |-> id,
     user_id |-> u,
     name |-> body.name.val,
     description |-> body.description.val,
     is_on_diet |-> body.isOnDiet.val,
     date |-> getTime(CoerceDate(body.date).date)]

\* randomUUID(): an id never returned before
randomUUID == generated + 1

\* POST /
PostMeal(p, u, body) ==
    /\ Accept(p)
    /\ IF ~CreateBodyValid(body)
       THEN /\ Send(p, [op |-> "post", user |-> u, status |-> ZodError])
            /\ UNCHANGED <<meals, generated>>
       ELSE /\ generated < MaxMeals
            /\ generated' = generated + 1
            /\ meals' = meals \cup { NewMeal(randomUUID, u, body) }
            /\ Send(p, [op |-> "post", user |-> u, status |-> "201"])
    /\ UNCHANGED <<tz, proc>>

\* PUT /:id with the body parsed before the lookup
PutLookupParseFirst(p, u, id, body) ==
    /\ Accept(p)
    /\ IF ~IsUuid(id) \/ ~EditBodyValid(body)
       THEN /\ Send(p, [op |-> "put", user |-> u, id |-> id, req |-> body,
                        status |-> ZodError])
            /\ UNCHANGED proc
       ELSE IF WhereId(id) = {}
       THEN /\ Send(p, [op |-> "put", user |-> u, id |-> id, req |-> body,
                        status |-> "404",
                        body |-> [message |-> "Meal not found"]])
            /\ UNCHANGED proc
       ELSE \E meal \in WhereId(id) :
            /\ proc' = [proc EXCEPT ![p] =
                          [pc |-> "put", user |-> u, id |-> id, body |-> body,
                           meal |-> meal]]
            /\ UNCHANGED reply
    /\ UNCHANGED <<meals, generated, tz>>

\* PUT /:id, up to the answer of `where({ id }).first()`
PutLookup(p, u, id, body) ==
    /\ Accept(p)
    /\ IF ~IsUuid(id)
       THEN /\ Send(p, [op |-> "put", user |-> u, id |-> id, req |-> body,
                        status |-> ZodError])
            /\ UNCHANGED proc
       ELSE IF WhereId(id) = {}
       THEN /\ Send(p, [op |-> "put", user |-> u, id |-> id, req |-> body,
                        status |-> "404",
                        body |-> [message |-> "Meal not found"]])
            /\ UNCHANGED proc
       ELSE \E meal \in WhereId(id) :
            /\ proc' = [proc EXCEPT ![p] =
                          [pc |-> "put", user |-> u, id |-> id, body |-> body,
                           meal |-> meal]]
            /\ UNCHANGED reply
    /\ UNCHANGED <<meals, generated, tz>>

\* Patch with `||` in place of `??`: a supplied false falls back to the row
PatchOr(body, meal) ==
    [name |-> IF Has(body, "name") THEN body.name.val ELSE meal.name,
     description |-> IF Has(body, "description") THEN body.description.val
                     ELSE meal.description,
     is_on_diet |-> IF Has(body, "isOnDiet") /\ body.isOnDiet.val THEN TRUE
                    ELSE meal.is_on_diet,
     date |-> IF Has(body, "date") THEN getDate(CoerceDate(body.date).date)
              ELSE meal.date]

\* Patch with date.getTime() in place of date.getDate()
PatchTimestamp(body, meal) ==
    [name |-> IF Has(body, "name") THEN body.name.val ELSE meal.name,
     description |-> IF Has(body, "description") THEN body.description.val
                     ELSE meal.description,
     is_on_diet |-> IF Has(body, "isOnDiet") THEN body.isOnDiet.val
                    ELSE meal.is_on_diet,
     date |-> IF Has(body, "date") THEN getTime(CoerceDate(body.date).date)
              ELSE meal.date]

\* Patch falling back to the row as stored now, not as the lookup read it
PatchFromStored(body, meal) ==
    LET cur == IF WhereId(meal.id) = {} THEN meal
               ELSE CHOOSE r \in WhereId(meal.id) : TRUE
    IN  [name |-> IF Has(body, "name") THEN body.name.val ELSE cur.name,
         description |-> IF Has(body, "description") THEN body.description.val
                         ELSE cur.description,
         is_on_diet |-> IF Has(body, "isOnDiet") THEN body.isOnDiet.val
                        ELSE cur.is_on_diet,
         date |-> IF Has(body, "date") THEN getDate(CoerceDate(body.date).date)
                  ELSE cur.date]

\* the values PUT /:id writes: `x ?? meal.x` for each column
Patch(body, meal) ==
    [name |-> IF Has(body, "name") THEN body.name.val ELSE meal.name,
     description |-> IF Has(body, "description") THEN body.description.val
                     ELSE meal.description,
     is_on_diet |-> IF Has(body, "isOnDiet") THEN body.isOnDiet.val
                    ELSE meal.is_on_diet,
     date |-> IF Has(body, "date") THEN getDate(CoerceDate(body.date).date)
              ELSE meal.date]

\* knex('meals').where({ id }).update(patch)
UpdateWhereId(id, patch) ==
    { IF r.id = id
      THEN [r EXCEPT !.name = patch.name, !.description = patch.description,
                     !.is_on_diet = patch.is_on_diet, !.date = patch.date]
      ELSE r : r \in meals }

\* PUT /:id, from the body's parse to the response
PutUpdate(p) ==
    /\ proc[p].pc = "put"
    /\ LET l == proc[p] IN
       IF ~EditBodyValid(l.body)
       THEN /\ Send(p, [op |-> "put", user |-> l.user, id |-> l.id,
                        req |-> l.body, status |-> ZodError])
            /\ UNCHANGED meals
       ELSE /\ meals' = UpdateWhereId(l.id, Patch(l.body, l.meal))
            /\ Send(p, [op |-> "put", user |-> l.user, id |-> l.id,
                        req |-> l.body, status |-> "201"])
    /\ proc' = [proc EXCEPT ![p] = Idle]
    /\ UNCHANGED <<generated, tz, served>>

\* GET /
GetMeals(p, u) ==
    /\ Accept(p)
    /\ \E list \in OrderByDateDesc(WhereUser(u)) :
         Send(p, [op |-> "list", user |-> u, status |-> "200",
                  body |-> [meals |-> list]])
    /\ UNCHANGED <<meals, generated, tz, proc>>

\* GET /:id with the lookup scoped to the acting user
GetMealOwned(p, u, id) ==
    /\ Accept(p)
    /\ IF ~IsUuid(id)
       THEN Send(p, [op |-> "get", user |-> u, id |-> id, status |-> ZodError])
       ELSE IF { r \in WhereId(id) : r.user_id = u } = {}
       THEN Send(p, [op |-> "get", user |-> u, id |-> id, status |-> "404",
                     body |-> [error |-> "Meal not found"]])
       ELSE \E meal \in WhereId(id) :
            Send(p, [op |-> "get", user |-> u, id |-> id, status |-> "200",
                     body |-> [meal |-> meal]])
    /\ UNCHANGED <<meals, generated, tz, proc>>

\* GET /:id
GetMeal(p, u, id) ==
    /\ Accept(p)
    /\ IF ~IsUuid(id)
       THEN Send(p, [op |-> "get", user |-> u, id |-> id, status |-> ZodError])
       ELSE IF WhereId(id) = {}
       THEN Send(p, [op |-> "get", user |-> u, id |-> id, status |-> "404",
                     body |-> [error |-> "Meal not found"]])
       ELSE \E meal \in WhereId(id) :
            Send(p, [op |-> "get", user |-> u, id |-> id, status |-> "200",
                     body |-> [meal |-> meal]])
    /\ UNCHANGED <<meals, generated, tz, proc>>

\* DELETE /:id, up to the answer of `where({ id }).first()`
DeleteLookup(p, u, id) ==
    /\ Accept(p)
    /\ IF ~IsUuid(id)
       THEN /\ Send(p, [op |-> "delete", user |-> u, id |-> id,
                        status |-> ZodError])
            /\ UNCHANGED proc
       ELSE IF WhereId(id) = {}
       THEN /\ Send(p, [op |-> "delete", user |-> u, id |-> id, status |-> "404",
                        body |-> [error |-> "Meal not found"]])
            /\ UNCHANGED proc
       ELSE /\ proc' = [proc EXCEPT ![p] =
                          [pc |-> "delete", user |-> u, id |-> id]]
            /\ UNCHANGED reply
    /\ UNCHANGED <<meals, generated, tz>>

\* the delete with the where clause left out
DeleteEverywhere(id) == {}

\* knex('meals').where({ id }).delete(): the table afterwards
DeleteWhereId(id) == meals \ WhereId(id)

\* DELETE /:id, `where({ id }).delete()` and the response
DeleteRow(p) ==
    /\ proc[p].pc = "delete"
    /\ meals' = DeleteWhereId(proc[p].id)
    /\ Send(p, [op |-> "delete", user |-> proc[p].user, id |-> proc[p].id,
                status |-> "204"])
    /\ proc' = [proc EXCEPT ![p] = Idle]
    /\ UNCHANGED <<generated, tz, served>>

\* GET /metrics, first query: the user's meals ordered by date descending
MetricsList(p, u) ==
    /\ Accept(p)
    /\ \E list \in OrderByDateDesc(WhereUser(u)) :
         proc' = [proc EXCEPT ![p] =
                    [pc |-> "metricsOn", user |-> u, totalMeals |-> list]]
    /\ UNCHANGED <<meals, generated, tz, reply>>

\* GET /metrics, second query: count of the user's on-diet meals
MetricsCountOn(p) ==
    /\ proc[p].pc = "metricsOn"
    /\ proc' = [proc EXCEPT ![p] =
                  [pc |-> "metricsOff", user |-> proc[p].user,
                   totalMeals |-> proc[p].totalMeals,
                   totalMealsOnDiet |-> CountWhere(proc[p].user, TRUE)]]
    /\ UNCHANGED <<meals, generated, tz, served, reply>>

\* GET /metrics, third query, the reduce and the response
MetricsCountOff(p) ==
    /\ proc[p].pc = "metricsOff"
    /\ LET l == proc[p] IN
       Send(p, [op |-> "metrics", user |-> l.user, status |-> "200",
                body |-> [totalMeals |-> Len(l.totalMeals),
                          totalMealsOnDiet |-> l.totalMealsOnDiet,
                          totalMealsOffDiet |-> CountWhere(l.user, FALSE),
                          bestOnDietSequence |->
                              Reduce(l.totalMeals, Len(l.totalMeals))
                                  .bestOnDietSequence]])
    /\ proc' = [proc EXCEPT ![p] = Idle]
    /\ UNCHANGED <<meals, generated, tz, served>>

Init ==
    /\ meals = {}
    /\ generated = 0
    /\ served = 0
    /\ tz \in TzOffsets
    /\ proc = [p \in Procs |-> Idle]
    /\ reply = NoReply

Next ==
    \E p \in Procs :
        \/ \E u \in Users, body \in CreateBodies : PostMeal(p, u, body)
        \/ \E u \in Users, id \in ParamIds, body \in EditBodies :
               PutLookup(p, u, id, body)
        \/ PutUpdate(p)
        \/ \E u \in Users : GetMeals(p, u)
        \/ \E u \in Users, id \in ParamIds : GetMeal(p, u, id)
        \/ \E u \in Users, id \in ParamIds : DeleteLookup(p, u, id)
        \/ DeleteRow(p)
        \/ \E u \in Users : MetricsList(p, u)
        \/ MetricsCountOn(p)
        \/ MetricsCountOff(p)

Spec == Init /\ [][Next]_vars

(***************************************************************************)
(* A table that earlier requests have filled, read by GET /metrics with no *)
(* write in flight.  Row i was the i-th created; its date follows one of   *)
(* three patterns: growing with i, falling with i, or equal in pairs.      *)
(***************************************************************************)
SeedDate(pattern, n, i) ==
    CASE pattern = "asc"   -> 1000 * i
      [] pattern = "desc"  -> 1000 * (n + 1 - i)
      [] pattern = "pairs" -> 1000 * ((i + 1) \div 2)

\* n rows of user A; when other # 0, also an on-diet row of user B dated
\* just after A's row `other`
SeedTable(n, flags, pattern, other) ==
    { [id |-> i,
       user_id |-> "A",
       name |-> "n1",
       description |-> "d1",
       is_on_diet |-> flags[i],
       date |-> SeedDate(pattern, n, i)] : i \in 1 .. n }
    \cup { [id |-> n + 1,
            user_id |-> "B",
            name |-> "n1",
            description |-> "d1",
            is_on_diet |-> TRUE,
            date |-> SeedDate(pattern, n, i) + 500] : i \in {other} \ {0} }

SeededInit ==
    /\ \E n \in 0 .. MaxSeed :
         \E flags \in [1 .. n -> BOOLEAN], pattern \in {"asc", "desc", "pairs"},
            other \in 0 .. n :
            /\ meals = SeedTable(n, flags, pattern, other)
            /\ generated = Cardinality(meals)
    /\ served = 0
    /\ tz \in TzOffsets
    /\ proc = [p \in Procs |-> Idle]
    /\ reply = NoReply

SeededNext ==
    \E p \in Procs :
        \/ \E u \in Users : MetricsList(p, u)
        \/ MetricsCountOn(p)
        \/ MetricsCountOff(p)

SeededSpec == SeededInit /\ [][SeededNext]_vars

(***************************************************************************)
(* Properties.  `reply` is replaced by every request that writes the       *)
(* table, so a response held in `reply` was computed from the table of the *)
(* same state.                                                             *)
(***************************************************************************)
CreateFields == {"name", "description", "isOnDiet", "date"}

\* the rows of table t with that id
RowsWithId(t, id) == { r \in t : r.id = id }

\* s lists exactly the rows of set rows, each once, by non-increasing date
IsDateDescListOf(s, rows) ==
    /\ Len(s) = Cardinality(rows)
    /\ { s[i] : i \in 1 .. Len(s) } = rows
    /\ \A i, j \in 1 .. Len(s) : i < j => s[i].date >= s[j].date

\* C1: Create with valid input adds exactly one row, with a fresh id, the
\* acting user as owner and the input's name, description, isOnDiet and
\* epoch-millisecond date; it changes no other row; and Get on an id in the
\* table returns the stored row, so Get after Create returns the input.
C1_CreateThenGet ==
    [][ /\ \A p \in Procs, u \in Users, body \in CreateBodies :
              (DOMAIN body = CreateFields /\ PostMeal(p, u, body)) =>
                  /\ reply'.status = "201"
                  /\ \E r \in meals' :
                        /\ r \notin meals
                        /\ meals' = meals \cup {r}
                        /\ RowsWithId(meals, r.id) = {}
                        /\ r.id \notin 1 .. generated
                        /\ r.user_id = u
                        /\ r.name = body.name.val
                        /\ r.description = body.description.val
                        /\ r.is_on_diet = body.isOnDiet.val
                        /\ r.date = body.date.val
        /\ \A p \in Procs, u \in Users, id \in Uuids :
              (RowsWithId(meals, id) # {} /\ GetMeal(p, u, id)) =>
                  /\ reply'.status = "200"
                  /\ RowsWithId(meals, id) = { reply'.body.meal }
                  /\ meals' = meals
      ]_vars

\* a Get answered with a row that still holds exactly what a Create stored
C1_Witness ==
    /\ reply.op = "get"
    /\ reply.status = "200"
    /\ reply.body.meal \in meals
    /\ Cardinality(meals) = 2
    /\ \E body \in CreateBodies :
          /\ DOMAIN body = CreateFields
          /\ reply.body.meal.name = body.name.val
          /\ reply.body.meal.description = body.description.val
          /\ reply.body.meal.is_on_diet = body.isOnDiet.val
          /\ reply.body.meal.date = body.date.val

\* C2: List for user u answers with exactly the rows of the table owned by
\* u, each once, in non-increasing order of stored date.
C2_ListOwnedByDateDesc ==
    reply.op = "list" =>
        /\ reply.status = "200"
        /\ IsDateDescListOf(reply.body.meals,
                            { r \in meals : r.user_id = reply.user })

\* a List of two meals of different dates, the older one dated by an Update
C2_Witness ==
    /\ reply.op = "list"
    /\ Len(reply.body.meals) = 2
    /\ reply.body.meals[1].date > reply.body.meals[2].date
    /\ reply.body.meals[2].date \in 1 .. 31
    /\ reply.body.meals[2].id < reply.body.meals[1].id

\* C4: Delete on an id in the table removes the rows with that id, changes
\* no other row and answers 204; an id that has left the table never comes
\* back and Get on an absent id answers 404; Delete on an absent id answers
\* 404 and leaves the table unchanged.
C4_Delete ==
    [][ /\ \A p \in Procs :
              DeleteRow(p) =>
                  /\ meals' = { r \in meals : r.id # proc[p].id }
                  /\ reply'.status = "204"
                  /\ reply'.id = proc[p].id
        /\ \A p \in Procs, u \in Users, id \in ParamIds \ {0} :
              (RowsWithId(meals, id) = {} /\ DeleteLookup(p, u, id)) =>
                  /\ reply'.status = "404"
                  /\ reply'.body = [error |-> "Meal not found"]
                  /\ meals' = meals
                  /\ proc' = proc
        /\ \A p \in Procs, u \in Users, id \in ParamIds \ {0} :
              (RowsWithId(meals, id) # {} /\ DeleteLookup(p, u, id)) =>
                  /\ proc'[p].pc = "delete"
                  /\ proc'[p].id = id
        /\ \A id \in 1 .. generated :
              RowsWithId(meals, id) = {} => RowsWithId(meals', id) = {}
        /\ \A p \in Procs, u \in Users, id \in ParamIds \ {0} :
              (RowsWithId(meals, id) = {} /\ GetMeal(p, u, id)) =>
                  /\ reply'.status = "404"
                  /\ reply'.body = [error |-> "Meal not found"]
      ]_vars

\* a Get answered 404 for an id that was created, hence deleted, while
\* another row is still in the table
C4_Witness ==
    /\ reply.op = "get"
    /\ reply.status = "404"
    /\ reply.id \in 1 .. generated
    /\ meals # {}

\* C5: Update on an id that is not in the table answers 404 with message
\* "Meal not found" and leaves the table unchanged, whatever the body, a
\* body that fails the schema included.
C5_UpdateMissing ==
    [][ \A id \in ParamIds \ {0} :
          RowsWithId(meals, id) = {} =>
          \A p \in Procs, u \in Users, body \in EditBodies :
            PutLookup(p, u, id, body) =>
                /\ reply'.status = "404"
                /\ reply'.body = [message |-> "Meal not found"]
                /\ meals' = meals
                /\ proc' = proc
      ]_vars

\* an Update answered 404 whose body fails the schema, with rows in the table
C5_Witness ==
    /\ reply.op = "put"
    /\ reply.status = "404"
    /\ reply.req = [date |-> Str("soon")]
    /\ meals # {}

\* the day of the month of time value ms in the server's zone, for a time
\* in December 1969 or January 1970
LocalDay(ms) ==
    LET days == (ms + tz * 60000) \div 86400000
    IN  IF days >= 0 THEN days + 1 ELSE 31 + days + 1

\* the time value of a valid date of EditBodies
SuppliedMs(v) == IF v.type = "number" THEN v.val ELSE 176400000

\* the number of elements of 1 .. Len(flags) that start a run of k TRUEs
LongestRun(flags) ==
    LET n == Len(flags)
        IsRun(i, k) == \A j \in i .. i + k - 1 : flags[j]
        runs == { k \in 0 .. n : \E i \in 1 .. n - k + 1 : IsRun(i, k) }
    IN  CHOOSE k \in runs : \A m \in runs : m <= k

\* C3 as stated: with no write in flight, Metrics for user u answers
\* totalMeals = the number of u's rows, totalMealsOnDiet / totalMealsOffDiet
\* = the number of them on / off diet, bestOnDietSequence = the longest run
\* of on-diet rows in u's meals by date descending; all four are 0 for a
\* user without meals, and 6, 4, 2, 3 for flags T T F T T T.
C3_MetricsAsStated ==
    [][ \A p \in Procs :
          MetricsCountOff(p) =>
            LET list  == proc[p].totalMeals
                mine  == { r \in meals : r.user_id = proc[p].user }
                flags == [i \in 1 .. Len(list) |-> list[i].is_on_diet]
                body  == reply'.body
            IN  /\ reply'.op = "metrics"
                /\ reply'.user = proc[p].user
                /\ IsDateDescListOf(list, mine)
                /\ body.totalMeals = Cardinality(mine)
                /\ body.totalMealsOnDiet =
                       Cardinality({ r \in mine : r.is_on_diet })
                /\ body.totalMealsOffDiet =
                       Cardinality({ r \in mine : ~r.is_on_diet })
                /\ body.bestOnDietSequence = LongestRun(flags)
                /\ mine = {} =>
                       body = [totalMeals |-> 0, totalMealsOnDiet |-> 0,
                               totalMealsOffDiet |-> 0,
                               bestOnDietSequence |-> 0]
                /\ flags = <<TRUE, TRUE, FALSE, TRUE, TRUE, TRUE>> =>
                       body = [totalMeals |-> 6, totalMealsOnDiet |-> 4,
                               totalMealsOffDiet |-> 2,
                               bestOnDietSequence |-> 3]
      ]_vars

\* C3, amended: with no write in flight, Metrics for user u answers totalMeals = the
\* number of u's rows, totalMealsOnDiet / totalMealsOffDiet = the number of
\* them on / off diet, bestOnDietSequence = the longest run of on-diet rows
\* in u's meals by date descending; all four are 0 for a user without
\* meals, and 6, 5, 1, 3 for flags T T F T T T (five of them are on diet).
C3_Metrics ==
    [][ \A p \in Procs :
          MetricsCountOff(p) =>
            LET list  == proc[p].totalMeals
                mine  == { r \in meals : r.user_id = proc[p].user }
                flags == [i \in 1 .. Len(list) |-> list[i].is_on_diet]
                body  == reply'.body
            IN  /\ reply'.op = "metrics"
                /\ reply'.user = proc[p].user
                /\ IsDateDescListOf(list, mine)
                /\ body.totalMeals = Cardinality(mine)
                /\ body.totalMealsOnDiet =
                       Cardinality({ r \in mine : r.is_on_diet })
                /\ body.totalMealsOffDiet =
                       Cardinality({ r \in mine : ~r.is_on_diet })
                /\ body.bestOnDietSequence = LongestRun(flags)
                /\ mine = {} =>
                       body = [totalMeals |-> 0, totalMealsOnDiet |-> 0,
                               totalMealsOffDiet |-> 0,
                               bestOnDietSequence |-> 0]
                /\ flags = <<TRUE, TRUE, FALSE, TRUE, TRUE, TRUE>> =>
                       body = [totalMeals |-> 6, totalMealsOnDiet |-> 5,
                               totalMealsOffDiet |-> 1,
                               bestOnDietSequence |-> 3]
      ]_vars

\* Metrics answered for a user whose meals, newest first, are T T F T T T,
\* next to a meal of another user
C3_Witness ==
    /\ reply.op = "metrics"
    /\ reply.body = [totalMeals |-> 6, totalMealsOnDiet |-> 5,
                     totalMealsOffDiet |-> 1, bestOnDietSequence |-> 3]
    /\ \E r \in meals : r.user_id # reply.user
    /\ \E list \in OrderByDateDesc(WhereUser(reply.user)) :
          [i \in 1 .. Len(list) |-> list[i].is_on_diet]
              = <<TRUE, TRUE, FALSE, TRUE, TRUE, TRUE>>

\* C6 as stated: a successful Update keeps the stored value of every field
\* the request omits, keeps id and userId, and changes no other row.
C6_OmittedKeepStored ==
    [][ \A p \in Procs :
          (PutUpdate(p) /\ reply'.status = "201") =>
            LET l == proc[p]
            IN  /\ \A r \in meals : r.id # l.id => r \in meals'
                /\ Cardinality(meals') = Cardinality(meals)
                /\ \A r \in RowsWithId(meals, l.id) :
                      \E r2 \in meals' :
                         /\ r2.id = r.id
                         /\ r2.user_id = r.user_id
                         /\ ~Has(l.body, "name") => r2.name = r.name
                         /\ ~Has(l.body, "description") =>
                                r2.description = r.description
                         /\ ~Has(l.body, "isOnDiet") =>
                                r2.is_on_diet = r.is_on_diet
                         /\ ~Has(l.body, "date") => r2.date = r.date
      ]_vars

\* C6, amended: a successful Update writes to the row of its id each
\* supplied name, description and isOnDiet, and for each omitted field the
\* value its lookup read, which is the stored value when the row has not
\* been written since the lookup (an Update with no field then leaves the
\* row identical); id and userId are kept, and no other row is changed,
\* added or removed.
C6_UpdateFrame ==
    [][ \A p \in Procs :
          (PutUpdate(p) /\ reply'.status = "201") =>
            LET l == proc[p]
            IN  /\ \A r \in meals : r.id # l.id => r \in meals'
                /\ \A r \in meals' : r.id # l.id => r \in meals
                /\ Cardinality(meals') = Cardinality(meals)
                /\ \A r \in RowsWithId(meals, l.id) :
                      \E r2 \in meals' :
                         /\ r2.id = r.id
                         /\ r2.user_id = r.user_id
                         /\ r2.name = IF Has(l.body, "name")
                                      THEN l.body.name.val ELSE l.meal.name
                         /\ r2.description = IF Has(l.body, "description")
                                             THEN l.body.description.val
                                             ELSE l.meal.description
                         /\ r2.is_on_diet = IF Has(l.body, "isOnDiet")
                                            THEN l.body.isOnDiet.val
                                            ELSE l.meal.is_on_diet
                         /\ ~Has(l.body, "date") => r2.date = l.meal.date
                         /\ (l.meal = r /\ DOMAIN l.body = {}) => r2 = r
                         /\ l.meal = r =>
                              /\ ~Has(l.body, "name") => r2.name = r.name
                              /\ ~Has(l.body, "description") =>
                                     r2.description = r.description
                              /\ ~Has(l.body, "isOnDiet") =>
                                     r2.is_on_diet = r.is_on_diet
                              /\ ~Has(l.body, "date") => r2.date = r.date
      ]_vars

\* an Update that supplied isOnDiet = false alone has answered 201: the row
\* is off diet and keeps the name an earlier Update gave it, beside another
\* row
C6_Witness ==
    /\ reply.op = "put"
    /\ reply.status = "201"
    /\ reply.req = [isOnDiet |-> Bool(FALSE)]
    /\ Cardinality(meals) = 2
    /\ \E r \in meals :
          /\ r.id = reply.id
          /\ ~r.is_on_diet
          /\ r.name = "n2"
          /\ r.date = 20

\* C7: an Update that supplies date stores the day of the month of that
\* date, a number in 1 .. 31 and not the time value, so the row's stored
\* date is below the stored date of every row created with a date after
\* 1970-01-01T00:00:00.031Z.
C7_UpdateStoresDayOfMonth ==
    [][ \A p \in Procs :
          (PutUpdate(p) /\ reply'.status = "201" /\ Has(proc[p].body, "date")) =>
            \A r2 \in RowsWithId(meals', proc[p].id) :
               LET ms == SuppliedMs(proc[p].body.date)
               IN  /\ r2.date \in 1 .. 31
                   /\ r2.date = LocalDay(ms)
                   /\ r2.date # ms
                   /\ \A q \in meals' : q.date > 31 => r2.date < q.date
      ]_vars

\* an Update that supplied a date has answered 201 and its row holds a day
\* of the month, below the date of a row that Create stored
C7_Witness ==
    /\ reply.op = "put"
    /\ reply.status = "201"
    /\ Has(reply.req, "date")
    /\ \E r \in meals, q \in meals :
          /\ r.id = reply.id
          /\ r.date \in 1 .. 31
          /\ q.date = 176400000
          /\ r.date < q.date

\* C8: Get, Update and Delete find the meal by id alone, so they succeed
\* for a user who does not own it, while List and Metrics for a user hold
\* and count only rows that user owns.
C8_OwnerScope ==
    [][ /\ \A r \in meals : \A u \in Users \ {r.user_id}, p \in Procs :
              /\ GetMeal(p, u, r.id) =>
                    reply'.status = "200" /\ reply'.body.meal = r
              /\ DeleteLookup(p, u, r.id) =>
                    proc'[p].pc = "delete" /\ proc'[p].id = r.id
              /\ \A body \in EditBodies :
                    PutLookup(p, u, r.id, body) =>
                       proc'[p].pc = "put" /\ proc'[p].meal = r
        /\ \A p \in Procs :
              /\ (PutUpdate(p) /\ reply'.status = "201") =>
                    \A r \in RowsWithId(meals, proc[p].id) :
                       (r.user_id # proc[p].user /\ Has(proc[p].body, "name")) =>
                           \E r2 \in meals' :
                              /\ r2.id = r.id
                              /\ r2.user_id = r.user_id
                              /\ r2.name = proc[p].body.name.val
              /\ DeleteRow(p) =>
                    /\ reply'.status = "204"
                    /\ RowsWithId(meals', proc[p].id) = {}
        /\ \A p \in Procs, u \in Users :
              /\ GetMeals(p, u) =>
                    \A i \in 1 .. Len(reply'.body.meals) :
                       reply'.body.meals[i].user_id = u
              /\ MetricsList(p, u) =>
                    \A i \in 1 .. Len(proc'[p].totalMeals) :
                       proc'[p].totalMeals[i].user_id = u
        /\ \A p \in Procs :
              /\ MetricsCountOn(p) =>
                    proc'[p].totalMealsOnDiet = Cardinality(
                       { r \in meals : r.user_id = proc[p].user /\ r.is_on_diet })
              /\ MetricsCountOff(p) =>
                    reply'.body.totalMealsOffDiet = Cardinality(
                       { r \in meals : r.user_id = proc[p].user /\ ~r.is_on_diet })
      ]_vars

\* an Update by a user who does not own the meal has answered 201 and the
\* row holds the name it supplied
C8_Witness ==
    /\ reply.op = "put"
    /\ reply.status = "201"
    /\ Has(reply.req, "name")
    /\ \E r \in meals :
          /\ r.id = reply.id
          /\ r.user_id # reply.user
          /\ r.name = reply.req.name.val

\* C9: an Update writes, for every field it omits, the value its lookup
\* read, also when another Update has changed that field in between: the
\* write puts the old value back and the Update answers 201.
C9_LostUpdate ==
    [][ \A p \in Procs :
          (PutUpdate(p) /\ EditBodyValid(proc[p].body)) =>
            LET l == proc[p]
            IN  /\ reply'.status = "201"
                /\ \A r \in RowsWithId(meals, l.id) :
                      \E r2 \in meals' :
                         /\ r2.id = r.id
                         /\ (~Has(l.body, "name") /\ r.name # l.meal.name) =>
                               (r2.name = l.meal.name /\ r2.name # r.name)
                         /\ (~Has(l.body, "description")
                               /\ r.description # l.meal.description) =>
                               (r2.description = l.meal.description
                                  /\ r2.description # r.description)
                         /\ (~Has(l.body, "isOnDiet")
                               /\ r.is_on_diet # l.meal.is_on_diet) =>
                               (r2.is_on_diet = l.meal.is_on_diet
                                  /\ r2.is_on_diet # r.is_on_diet)
                         /\ (~Has(l.body, "date") /\ r.date # l.meal.date) =>
                               (r2.date = l.meal.date /\ r2.date # r.date)
      ]_vars

\* one Update has answered 201 and its name is in the row; a second Update
\* of the same id, which read the row before that write and supplies only a
\* description, is about to write
C9_Witness ==
    /\ reply.op = "put"
    /\ reply.status = "201"
    /\ reply.req = [name |-> Str("n2")]
    /\ \E q \in Procs, r \in meals :
          /\ proc[q].pc = "put"
          /\ proc[q].id = reply.id
          /\ proc[q].body = [description |-> Str("d2")]
          /\ r.id = reply.id
          /\ r.name = "n2"
          /\ proc[q].meal.name = "n1"

\* C10: when the table's rows of the user are, at the third query of
\* Metrics, the rows its first query listed and its second query counted,
\* totalMeals = totalMealsOnDiet + totalMealsOffDiet.
C10_MetricsSum ==
    [][ \A p \in Procs :
          MetricsCountOff(p) =>
            LET l    == proc[p]
                mine == { r \in meals : r.user_id = l.user }
                body == reply'.body
            IN  ( /\ IsDateDescListOf(l.totalMeals, mine)
                  /\ l.totalMealsOnDiet =
                        Cardinality({ r \in mine : r.is_on_diet }) )
                => body.totalMeals =
                      body.totalMealsOnDiet + body.totalMealsOffDiet
      ]_vars

\* a Metrics response whose three numbers come from different tables
C10_Witness ==
    /\ reply.op = "metrics"
    /\ reply.body.totalMeals
          # reply.body.totalMealsOnDiet + reply.body.totalMealsOffDiet

====
